---- MODULE Spec2Model ----
(***************************************************************************)
(* Pricing and calculation engine of the tiling quotation application:     *)
(*   - calculateTotals            (src/services/calculationService.ts)     *)
(*   - the quotation view's visibility toggles and group totals            *)
(*                                (src/components/Auth.tsx)                *)
(*   - the tile editor            (src/components/EditTilesModal.tsx)      *)
(*                                                                         *)
(* JavaScript numbers are modelled as exact rationals <<num, den>> in      *)
(* lowest terms, Infinity <<1, 0>>, -Infinity <<-1, 0>>, or NaN.  The two  *)
(* places where IEEE-754 doubles differ     *)
(* observably from exact decimal arithmetic on the values of the model     *)
(* (Math.ceil of a quotient of two decimals, toFixed(2)) are modelled by   *)
(* what the double computation returns, see MathCeilDiv and ToFixed2.      *)
(***************************************************************************)
EXTENDS Integers, Sequences, FiniteSets

(***************************************************************************)
(* Numbers                                                                 *)
(***************************************************************************)
NaN == <<>>

Zero == <<0, 1>>

Abs(n) == IF n < 0 THEN 0 - n ELSE n

RECURSIVE GCD(_, _)
GCD(a, b) == IF b = 0 THEN a ELSE GCD(b, a % b)

\* the rational n/d (d >= 0) in lowest terms; n/0 is an infinity, 0/0 is NaN
Norm(n, d) ==
    IF n = 0 /\ d = 0 THEN NaN
    ELSE LET g == GCD(Abs(n), d) IN <<n \div g, d \div g>>

Int2Num(n) == <<n, 1>>

\* a decimal with two fractional digits, given in hundredths
Dec(c) == Norm(c, 100)

IsNaN(a) == a = NaN

\* JavaScript a + b on numbers
Add(a, b) ==
    IF IsNaN(a) \/ IsNaN(b) THEN NaN
    ELSE IF a[2] = 0 /\ b[2] = 0 THEN (IF a = b THEN a ELSE NaN)
    ELSE Norm(a[1] * b[2] + b[1] * a[2], a[2] * b[2])

\* JavaScript a * b on numbers
Mul(a, b) ==
    IF IsNaN(a) \/ IsNaN(b) THEN NaN
    ELSE Norm(a[1] * b[1], a[2] * b[2])

\* JavaScript a / 100
Div100(a) == IF IsNaN(a) THEN NaN ELSE Norm(a[1], a[2] * 100)

Sub(a, b) == Add(a, Mul(b, Int2Num(0 - 1)))

\* a > 0, false for NaN as in JavaScript
IsPos(a) == ~IsNaN(a) /\ a[1] > 0

Less(a, b) == ~IsNaN(a) /\ ~IsNaN(b) /\ a[1] * b[2] < b[1] * a[2]

Leq(a, b) == ~IsNaN(a) /\ ~IsNaN(b) /\ a[1] * b[2] <= b[1] * a[2]

IsFiniteNum(a) == ~IsNaN(a) /\ Len(a) = 2 /\ a[2] # 0

IsInteger(a) == IsFiniteNum(a) /\ a[2] = 1

(***************************************************************************)
(* JavaScript values held in numeric fields: <<type, payload>>.            *)
(*   <<"number", r>>    the number r (a rational, or NaN)                  *)
(*   <<"string", r>>    a non-empty string; r is what it parses to         *)
(*                      (NaN for text such as "abc")                       *)
(*   <<"empty", NaN>>   the empty string ""                                *)
(*   <<"undefined", NaN>>, <<"null", NaN>>                                 *)
(***************************************************************************)
Num(r) == <<"number", r>>

Str(r) == <<"string", r>>

EmptyStr == <<"empty", NaN>>

Undefined == <<"undefined", NaN>>

Null == <<"null", NaN>>

\* Number(x)
ToNumber(x) ==
    CASE x[1] = "number" -> x[2]
      [] x[1] = "string" -> x[2]
      [] x[1] = "empty" -> Zero
      [] x[1] = "null" -> Zero
      [] OTHER -> NaN

\* parseFloat(x) for a string x
parseFloat(x) == IF x[1] = "string" \/ x[1] = "number" THEN x[2] ELSE NaN

\* truthiness of a value
Truthy(x) ==
    CASE x[1] = "number" -> ~IsNaN(x[2]) /\ x[2] # Zero
      [] x[1] = "string" -> TRUE
      [] OTHER -> FALSE

\* n || 0 for a number n
OrZero(n) == IF IsNaN(n) \/ n = Zero THEN Zero ELSE n

\* mutant: the coercion without its "|| 0"
NumberWithoutOrZero(x) == ToNumber(x)

\* the idiom (Number(x) || 0) of calculateTotals and handleSaveChanges
NumberOrZero(x) == OrZero(ToNumber(x))

(***************************************************************************)
(* Documents.  A list field is <<"array", seq>> or <<"undefined", <<>>>>   *)
(* (missing or not an array).  A list entry is a record whose field obj    *)
(* is FALSE for a null entry.  A visibility flag is "absent" (the key is   *)
(* not in the document), "true" or "false".                                *)
(***************************************************************************)
Arr(s) == <<"array", s>>

NoArr == <<"undefined", <<>>>>

IsArray(a) == a[1] = "array"

NullTile ==
    [obj |-> FALSE, category |-> "", group |-> "", size |-> "", tileType |-> "Unknown",
     sqm |-> Undefined, cartons |-> Undefined, unitPrice |-> Undefined, driving |-> "none"]

NullMaterial == [obj |-> FALSE, quantity |-> Undefined, unitPrice |-> Undefined]

NullAdjustment == [obj |-> FALSE, amount |-> Undefined]

\* mutant: 'flag' in data ? data.flag : false
FlagInWithoutDefault(flag, dflt) == flag = "true"

\* 'flag' in data ? data.flag : dflt
FlagIn(flag, dflt) == IF flag = "absent" THEN dflt ELSE flag = "true"

\* data.flag ?? dflt; "undefined" is a key that is present and holds undefined
FlagOr(flag, dflt) == IF flag \in {"absent", "undefined"} THEN dflt ELSE flag = "true"


\* reading a property of a null entry throws a TypeError
HasNull(s) == \E i \in 1..Len(s) : ~s[i].obj

RECURSIVE SumSqm(_, _)
SumSqm(tiles, i) ==
    IF i = 0 THEN Zero
    ELSE Add(SumSqm(tiles, i - 1), NumberOrZero(tiles[i].sqm))

\* the summand of the tile cost reduce (line 29)
TileLineCost(tile) == Mul(NumberOrZero(tile.cartons), NumberOrZero(tile.unitPrice))

RECURSIVE SumTileCost(_, _)
SumTileCost(tiles, i) ==
    IF i = 0 THEN Zero
    ELSE Add(SumTileCost(tiles, i - 1), TileLineCost(tiles[i]))

RECURSIVE SumMaterialCost(_, _)
SumMaterialCost(mats, i) ==
    IF i = 0 THEN Zero
    ELSE Add(SumMaterialCost(mats, i - 1),
             Mul(NumberOrZero(mats[i].quantity), NumberOrZero(mats[i].unitPrice)))

RECURSIVE SumAdjustments(_, _)
SumAdjustments(adjs, i) ==
    IF i = 0 THEN Zero
    ELSE Add(SumAdjustments(adjs, i - 1), NumberOrZero(adjs[i].amount))

\* mutant: a negative total of the adjustments is clamped to 0
TotalAdjustmentsClamped(adjs) ==
    IF Less(SumAdjustments(adjs, Len(adjs)), Zero) THEN Zero
    ELSE SumAdjustments(adjs, Len(adjs))

\* data.adjustments.reduce((acc, adj) => acc + (Number(adj.amount) || 0), 0)
TotalAdjustments(adjs) == SumAdjustments(adjs, Len(adjs))

\* mutant: the percentage taken as a fraction, without the division by 100
DepositAmountAsFraction(grandTotal, depositPercentage) ==
    IF Truthy(depositPercentage)
    THEN Mul(grandTotal, NumberOrZero(depositPercentage))
    ELSE Zero

\* the deposit of calculateTotals (lines 55-58)
DepositAmount(grandTotal, depositPercentage) ==
    IF Truthy(depositPercentage)
    THEN Mul(grandTotal, Div100(NumberOrZero(depositPercentage)))
    ELSE Zero

\* the value of a call that threw
Threw ==
    [threw |-> TRUE, totalSqm |-> NaN, totalTileCost |-> NaN, totalMaterialCost |-> NaN,
     workmanshipCost |-> NaN, workmanshipAndMaintenance |-> NaN, profitAmount |-> NaN,
     subtotal |-> NaN, totalAdjustments |-> NaN, taxAmount |-> NaN, grandTotal |-> NaN,
     depositAmount |-> NaN]

\* mutant: tax and grand total taken on the pre-adjustment subtotal
PostAdjustmentSubtotalWithoutAdjustments(subtotal, totalAdjustments) == subtotal

\* the tax base of calculateTotals (line 51)
PostAdjustmentSubtotal(subtotal, totalAdjustments) == Add(subtotal, totalAdjustments)

\* mutant: the materials are counted whatever the flag says
MaterialsCountedAlways(showMaterials) == TRUE

\* the guard of the material reduce (line 32)
MaterialsCounted(showMaterials) == showMaterials

calculateTotals(data, settings) ==
    LET showTax == FlagIn(data.showTax, settings.showTax)
        showMaintenance == FlagIn(data.showMaintenance, settings.showMaintenance)
        showWorkmanship == FlagIn(data.showWorkmanship, TRUE)
        taxPercentage == settings.taxPercentage
        showMaterials == FlagOr(data.showMaterials, TRUE)
        showAdjustments == FlagOr(data.showAdjustments, TRUE)
        safeTiles == IF IsArray(data.tiles) THEN data.tiles[2] ELSE <<>>
        safeMaterials == IF IsArray(data.materials) THEN data.materials[2] ELSE <<>>
        sumAdj == showAdjustments /\ IsArray(data.adjustments)
        throws == \/ HasNull(safeTiles)
                  \/ MaterialsCounted(showMaterials) /\ HasNull(safeMaterials)
                  \/ sumAdj /\ HasNull(data.adjustments[2])
        totalSqm == SumSqm(safeTiles, Len(safeTiles))
        totalTileCost == SumTileCost(safeTiles, Len(safeTiles))
        totalMaterialCost ==
            IF MaterialsCounted(showMaterials)
            THEN SumMaterialCost(safeMaterials, Len(safeMaterials))
            ELSE Zero
        workmanshipCost ==
            IF showWorkmanship THEN Mul(totalSqm, NumberOrZero(data.workmanshipRate)) ELSE Zero
        workmanshipAndMaintenance ==
            Add(workmanshipCost,
                IF showMaintenance THEN NumberOrZero(data.maintenance) ELSE Zero)
        preProfitTotal == Add(Add(totalTileCost, totalMaterialCost), workmanshipAndMaintenance)
        profitAmount ==
            IF Truthy(data.profitPercentage)
            THEN Mul(preProfitTotal, Div100(NumberOrZero(data.profitPercentage)))
            ELSE Zero
        subtotal == Add(preProfitTotal, profitAmount)
        totalAdjustments ==
            IF sumAdj THEN TotalAdjustments(data.adjustments[2]) ELSE Zero
        postAdjustmentSubtotal == PostAdjustmentSubtotal(subtotal, totalAdjustments)
        taxAmount ==
            IF showTax THEN Mul(postAdjustmentSubtotal, Div100(NumberOrZero(taxPercentage)))
            ELSE Zero
        grandTotal == Add(postAdjustmentSubtotal, taxAmount)
        depositAmount == DepositAmount(grandTotal, data.depositPercentage)
    IN  IF throws THEN Threw
        ELSE [threw |-> FALSE, totalSqm |-> totalSqm, totalTileCost |-> totalTileCost,
              totalMaterialCost |-> totalMaterialCost, workmanshipCost |-> workmanshipCost,
              workmanshipAndMaintenance |-> workmanshipAndMaintenance,
              profitAmount |-> profitAmount, subtotal |-> subtotal,
              totalAdjustments |-> totalAdjustments, taxAmount |-> taxAmount,
              grandTotal |-> grandTotal, depositAmount |-> depositAmount]

(***************************************************************************)
(* The quotation view (QuotationDisplay): the open document, the settings  *)
(* and the summary computed by the last render.                            *)
(***************************************************************************)
VARIABLES data, settings, summary, tiles, isOpen,
          allQuotations, allInvoices, quotationData, pending,
          history, canUndo, canRedo

vars == <<data, settings, summary, tiles, isOpen,
          allQuotations, allInvoices, quotationData, pending, history, canUndo, canRedo>>

\* the state of AuthenticatedApp outside the quotation view and the tile
\* editor: the stored quotations and invoices, the quotation open in the
\* generator, the handlers waiting on the database, the job-notes history and
\* the canUndo / canRedo of the last render
appState == <<allQuotations, allInvoices, quotationData, pending, history, canUndo, canRedo>>

NoQuotation == [id |-> 0]

\* useState([]), useState(null), useHistoryState([]) (App.tsx, lines 122-128)
AppIdle ==
    /\ allQuotations = <<>>
    /\ allInvoices = <<>>
    /\ quotationData = NoQuotation
    /\ pending = {}
    /\ history = [past |-> <<>>, present |-> <<>>, future |-> <<>>]
    /\ canUndo = FALSE
    /\ canRedo = FALSE

\* { ...data, [flag]: enabled }
HandleShowToggle(d, flag, enabled) ==
    [d EXCEPT ![flag] = IF enabled THEN "true" ELSE "false"]

\* a render of the view: const summary = calculateTotals(data, settings)
Render(d) == calculateTotals(d, settings)

handleShowMaterialsToggle ==
    \E enabled \in BOOLEAN :
        /\ data' = HandleShowToggle(data, "showMaterials", enabled)
        /\ summary' = Render(data')
        /\ UNCHANGED <<settings, tiles, isOpen, appState>>

handleShowAdjustmentsToggle ==
    \E enabled \in BOOLEAN :
        /\ data' = HandleShowToggle(data, "showAdjustments", enabled)
        /\ summary' = Render(data')
        /\ UNCHANGED <<settings, tiles, isOpen, appState>>

handleShowWorkmanshipToggle ==
    \E enabled \in BOOLEAN :
        /\ data' = HandleShowToggle(data, "showWorkmanship", enabled)
        /\ summary' = Render(data')
        /\ UNCHANGED <<settings, tiles, isOpen, appState>>

handleShowMaintenanceToggle ==
    \E enabled \in BOOLEAN :
        /\ data' = HandleShowToggle(data, "showMaintenance", enabled)
        /\ summary' = Render(data')
        /\ UNCHANGED <<settings, tiles, isOpen, appState>>

handleShowTaxToggle ==
    \E enabled \in BOOLEAN :
        /\ data' = HandleShowToggle(data, "showTax", enabled)
        /\ summary' = Render(data')
        /\ UNCHANGED <<settings, tiles, isOpen, appState>>

(***************************************************************************)
(* Documents and settings the view is opened on                            *)
(***************************************************************************)
Tile(group, sqm, cartons, unitPrice) ==
    [obj |-> TRUE, category |-> "", group |-> group, size |-> "", tileType |-> "Unknown",
     sqm |-> sqm, cartons |-> cartons, unitPrice |-> unitPrice, driving |-> "none"]

Material(quantity, unitPrice) == [obj |-> TRUE, quantity |-> quantity, unitPrice |-> unitPrice]

Adjustment(amount) == [obj |-> TRUE, amount |-> amount]

N(n) == Num(Int2Num(n))

Text == Str(NaN)

TileLists ==
    { NoArr,
      Arr(<<>>),
      Arr(<<Tile("General", N(95), N(64), N(56))>>),
      Arr(<<Tile("General", N(3), N(2), N(56)), Tile("Flat 1", Num(Dec(450)), N(3), N(65))>>),
      Arr(<<Tile("General", N(3), N(2), N(56)), Tile("General", N(2), N(2), Text),
            Tile("Flat 1", N(6), N(4), Undefined)>>),
      Arr(<<Tile("General", Text, N(2), N(56)),
            Tile("Flat 1", Str(Int2Num(3)), Str(Int2Num(2)), N(65))>>),
      Arr(<<Tile("General", N(3), N(2), N(56)), NullTile>>) }

MaterialLists ==
    { NoArr,
      Arr(<<Material(N(4), N(10)), Material(N(1), N(15))>>),
      Arr(<<Material(Text, N(10)), Material(N(2), N(15))>>),
      Arr(<<Material(N(4), N(10)), NullMaterial>>) }

AdjustmentLists ==
    { NoArr,
      Arr(<<Adjustment(N(0 - 50)), Adjustment(N(20))>>),
      Arr(<<Adjustment(N(0 - 50)), Adjustment(Text)>>),
      Arr(<<Adjustment(N(20)), NullAdjustment>>) }

\* workmanshipRate, maintenance, profitPercentage, depositPercentage
Scalars ==
    { <<N(17), N(100), N(10), N(50)>>,
      <<N(17), N(0), Null, Null>>,
      <<N(17), N(100), N(0), N(0)>>,
      <<Text, Undefined, Text, Undefined>> }

\* the settings: DEFAULT_SETTINGS (part_012, lines 3-60) with the fields a user
\* changes in the settings form
Settings(taxPercentage, showTax, showMaintenance, kitchenWallRate) ==
    [taxPercentage |-> taxPercentage, showTax |-> showTax, showMaintenance |-> showMaintenance,
     wastageFactor |-> Dec(110), invoicePrefix |-> "INV",
     sittingRoomTileM2PerCarton |-> Dec(150), roomTileM2PerCarton |-> Dec(150),
     toiletWallTileM2PerCarton |-> Dec(150), toiletFloorTileM2PerCarton |-> Dec(150),
     kitchenWallTileM2PerCarton |-> kitchenWallRate, kitchenFloorTileM2PerCarton |-> Dec(150),
     externalWallTileM2PerCarton |-> Dec(150), stepTileM2PerCarton |-> Dec(150),
     wallTileM2PerCarton |-> Dec(150), floorTileM2PerCarton |-> Dec(150),
     wallTilePrice |-> Int2Num(5600), floorTilePrice |-> Int2Num(6500),
     sittingRoomTilePrice |-> Int2Num(6800), externalWallTilePrice |-> Int2Num(6500),
     stepTilePrice |-> Int2Num(6500), bedroomTilePrice |-> Int2Num(6500),
     toiletWallTilePrice |-> Int2Num(5600), toiletFloorTilePrice |-> Int2Num(6500),
     kitchenWallTilePrice |-> Int2Num(5600), kitchenFloorTilePrice |-> Int2Num(6500),
     tilePricesBySize |->
         << [size |-> "60x60", price |-> Int2Num(6500)],
            [size |-> "30x60", price |-> Int2Num(5600)],
            [size |-> "40x40", price |-> Int2Num(5000)],
            [size |-> "30x30", price |-> Int2Num(4500)],
            [size |-> "60x120", price |-> Int2Num(12000)],
            [size |-> "25x40", price |-> Int2Num(5600)] >>]

SettingsSet ==
    { Settings(Num(Dec(750)), FALSE, TRUE, Dec(150)),
      Settings(Num(Dec(750)), TRUE, FALSE, Dec(150)),
      Settings(Text, TRUE, FALSE, Dec(150)) }

\* a stored document: the visibility flags are optional (types.ts, lines 65-77)
\* and absent until a toggle sets them
Document(tl, ml, al, sc) ==
    [tiles |-> tl, materials |-> ml, adjustments |-> al,
     workmanshipRate |-> sc[1], maintenance |-> sc[2],
     profitPercentage |-> sc[3], depositPercentage |-> sc[4],
     showMaterials |-> "absent", showAdjustments |-> "absent",
     showWorkmanship |-> "absent", showMaintenance |-> "absent", showTax |-> "absent"]

Init ==
    /\ settings \in SettingsSet
    /\ \E tl \in TileLists, ml \in MaterialLists, al \in AdjustmentLists, sc \in Scalars :
           data = Document(tl, ml, al, sc)
    /\ summary = Render(data)
    /\ tiles = <<>>
    /\ isOpen = FALSE
    /\ AppIdle

Next ==
    \/ handleShowMaterialsToggle
    \/ handleShowAdjustmentsToggle
    \/ handleShowWorkmanshipToggle
    \/ handleShowMaintenanceToggle
    \/ handleShowTaxToggle

Spec == Init /\ [][Next]_vars

(***************************************************************************)
(* The tile editor (EditTilesModal).  tiles is its local state: one record *)
(* per row, the numeric fields holding what was typed (a string) or what   *)
(* the editor computed (a number).  The field driving is a history field:  *)
(* which quantity the last quantity-affecting edit of the row drove from.  *)
(***************************************************************************)
MaxRows == 1

MaxSqm == 5

\* sqm / currentRate for finite numbers, currentRate > 0
\* JavaScript a / b on numbers
Quot(a, b) ==
    IF IsNaN(a) \/ IsNaN(b) THEN NaN
    ELSE IF b[1] < 0 THEN Norm(0 - a[1] * b[2], 0 - a[2] * b[1])
    ELSE Norm(a[1] * b[2], a[2] * b[1])

Hundredths(x) == (x[1] * 100) \div x[2]

Thousandths(x) == (x[1] * 1000) \div x[2]

\* <<sqm, rate>> in hundredths, the decimal quotient a whole number, for which
\* the IEEE-754 double quotient numSqm / currentRate lies above that whole
\* number (4.2 / 1.4 is 3.0000000000000004), for the rates of the settings
\* of the model and sqm up to 30
QuotientAboveWhole ==
    { <<420, 140>>, <<840, 140>>, <<980, 140>>, <<1540, 140>>, <<1680, 140>>,
      <<1960, 140>>, <<2100, 140>>, <<2660, 140>>,
      <<840, 120>>, <<1080, 120>>, <<1680, 120>>, <<2160, 120>>, <<2760, 120>>,
      <<1680, 240>>, <<2160, 240>> }

\* Math.ceil(a / b) as JavaScript computes it, a > 0
MathCeilDiv(a, b) ==
    LET q == Quot(a, b)
        up == (q[1] + q[2] - 1) \div q[2]
    IN  IF IsNaN(q) \/ q[2] = 0 THEN q
        ELSE IF q[2] = 1 /\ <<Hundredths(a), Hundredths(b)>> \in QuotientAboveWhole
        THEN Int2Num(up + 1)
        ELSE Int2Num(up)

\* the products numSqm * 1.1, in thousandths, that end in 5 and whose double
\* lies below the decimal (0.95 * 1.1 is 1.0449999999999999), for sqm below 15
ProductBelowTie ==
    { s * 11 : s \in { 95, 115, 145, 165, 205, 305, 455, 485, 535, 755, 785, 845, 945,
                       1035, 1095, 1195, 1345 } }

\* parseFloat(x.toFixed(2)) for x >= 0
ToFixed2(x) ==
    LET s == x[1] * 100
        q == s \div x[2]
        r == s % x[2]
    IN  IF 2 * r < x[2] THEN Dec(q)
        ELSE IF 2 * r > x[2] THEN Dec(q + 1)
        ELSE IF Thousandths(x) \in ProductBelowTie THEN Dec(q) ELSE Dec(q + 1)

\* a missing category (undefined), apart from every string
NoCategory == "<undefined>"

\* category || ''
CategoryOrEmpty(category) == IF category = NoCategory THEN "" ELSE category

\* String(tile.category)
StringOfCategory(category) == IF category = NoCategory THEN "undefined" ELSE category

\* the lower-cased, trimmed category: the keywords it contains (cat.includes),
\* among those getCoverageRate and the generator's prompt test for
CategoryWords(category) ==
    CASE category = "Kitchen Wall" -> {"kitchen", "wall"}
      [] category = "Kitchen Floor" -> {"kitchen", "floor"}
      [] category = "Toilet Wall" -> {"toilet", "wall"}
      [] category = "Toilet Floor" -> {"toilet", "floor"}
      [] category = "External Wall" -> {"external", "wall"}
      [] category = "Step" -> {"step"}
      [] category = "Staircase" -> {"stair"}
      [] category = "Wall" -> {"wall"}
      [] category = "Passage Wall" -> {"wall"}
      [] category = "Floor" -> {"floor"}
      [] category = "Sitting Room" -> {"sitting", "room"}
      [] category = "Bedroom" -> {"bedroom", "room"}
      [] category = "Bathroom Wall" -> {"bathroom", "room", "wall"}
      [] category = "Bathroom Floor" -> {"bathroom", "room", "floor"}
      [] category = "Guest Toilet Wall" -> {"guest", "toilet", "wall"}
      [] category = "Master Bedroom Toilet Floor" ->
             {"master", "bedroom", "room", "toilet", "floor"}
      [] category = "Store" -> {"store"}
      [] category = "Dining" -> {"dining"}
      [] OTHER -> {}

\* the lower-cased, trimmed category when it is one of the abbreviations
CategoryAbbrev(category) ==
    CASE category = "KW" -> "kw"
      [] category = " tw " -> "tw"
      [] category = "SR" -> "sr"
      [] category = "Step" -> "step"
      [] OTHER -> ""

\* mutant: the fallback is the general wall rate
DefaultRateWall == settings.wallTileM2PerCarton

\* the default fallback of getCoverageRate (line 59)
DefaultRate == settings.floorTileM2PerCarton

getCoverageRate(category) ==
    LET cat == CategoryAbbrev(CategoryOrEmpty(category))
        has(w) == w \in CategoryWords(CategoryOrEmpty(category))
    IN  IF cat = "sr" \/ cat = "lr" \/ has("sitting") \/ has("living") \/ has("parlour")
           \/ has("dining")
        THEN settings.sittingRoomTileM2PerCarton
        ELSE IF cat = "br" \/ cat = "mbr" \/ has("bedroom") \/ has("room") \/ has("guest")
                \/ has("store")
        THEN settings.roomTileM2PerCarton
        ELSE IF cat = "tw" \/ (has("toilet") /\ has("wall")) \/ (has("bathroom") /\ has("wall"))
        THEN settings.toiletWallTileM2PerCarton
        ELSE IF cat = "tf" \/ (has("toilet") /\ has("floor"))
                \/ (has("bathroom") /\ has("floor"))
        THEN settings.toiletFloorTileM2PerCarton
        ELSE IF cat = "kw" \/ (has("kitchen") /\ has("wall"))
        THEN settings.kitchenWallTileM2PerCarton
        ELSE IF cat = "kf" \/ (has("kitchen") /\ has("floor"))
        THEN settings.kitchenFloorTileM2PerCarton
        ELSE IF cat = "ext" \/ has("external") \/ has("outside") \/ has("facade")
        THEN settings.externalWallTileM2PerCarton
        ELSE IF cat = "step" \/ has("step") \/ has("stair")
        THEN settings.stepTileM2PerCarton
        ELSE IF has("wall") THEN settings.wallTileM2PerCarton
        ELSE DefaultRate

\* typeof x === 'string' ? parseFloat(x) : x
NumOf(x) == IF x[1] = "number" THEN x[2] ELSE parseFloat(x)

\* the cartons the sqm / category branch derives (line 107)
CartonsFromSqm(numSqm, currentRate) == MathCeilDiv(numSqm, currentRate)

\* mutant: the product stored without rounding it to two decimals
SqmFromCartonsUnrounded(numCartons, currentRate) == Mul(numCartons, currentRate)

\* the sqm the cartons branch derives (line 118)
SqmFromCartons(numCartons, currentRate) == ToFixed2(Mul(numCartons, currentRate))

handleTileChange(tile, field, value) ==
    LET currentRate == getCoverageRate(IF field = "category" THEN value ELSE tile.category)
        wastageFactor == settings.wastageFactor
        t == IF field # "addWastage" THEN [tile EXCEPT ![field] = value] ELSE tile
    IN  CASE field = "addWastage" ->
                LET numSqm == NumOf(t.sqm)
                    adjustedSqm == IF value THEN Mul(numSqm, wastageFactor)
                                   ELSE Quot(numSqm, wastageFactor)
                    newSqm == ToFixed2(adjustedSqm)
                IN  IF IsPos(numSqm)
                    THEN [t EXCEPT !.addWastage = value, !.sqm = Num(newSqm),
                                   !.cartons = Num(MathCeilDiv(newSqm, currentRate))]
                    ELSE [t EXCEPT !.addWastage = value]
          [] field = "sqm" \/ field = "category" ->
                LET numSqm == NumOf(t.sqm)
                IN  IF IsPos(numSqm)
                    THEN [t EXCEPT !.cartons = Num(CartonsFromSqm(numSqm, currentRate))]
                    ELSE IF field = "sqm" /\ value = EmptyStr
                    THEN [t EXCEPT !.cartons = N(0)]
                    ELSE t
          [] field = "cartons" ->
                LET numCartons == parseFloat(value)
                IN  IF IsPos(numCartons)
                    THEN [t EXCEPT !.sqm = Num(SqmFromCartons(numCartons, currentRate))]
                    ELSE IF value = EmptyStr
                    THEN [t EXCEPT !.sqm = N(0)]
                    ELSE t
          [] OTHER -> t

\* mutant: a new row that starts with one carton
NewRowWithOneCarton ==
    [category |-> "", group |-> "General", size |-> "", tileType |-> "Unknown",
     sqm |-> N(0), cartons |-> N(1), unitPrice |-> N(0), addWastage |-> FALSE,
     driving |-> "none"]

\* the row handleAddTile appends
NewRow ==
    [category |-> "", group |-> "General", size |-> "", tileType |-> "Unknown",
     sqm |-> N(0), cartons |-> N(0), unitPrice |-> N(0), addWastage |-> FALSE,
     driving |-> "none"]

\* the effect that fills the local state from currentTiles (lines 26-35)
EditableTiles(currentTiles) ==
    [i \in 1..Len(currentTiles) |->
        [category |-> currentTiles[i].category, group |-> currentTiles[i].group,
         size |-> currentTiles[i].size, tileType |-> currentTiles[i].tileType,
         sqm |-> currentTiles[i].sqm, cartons |-> currentTiles[i].cartons,
         unitPrice |-> currentTiles[i].unitPrice, addWastage |-> FALSE,
         driving |-> currentTiles[i].driving]]

\* quotationData?.tiles || []
CurrentTiles(d) == IF IsArray(d.tiles) THEN d.tiles[2] ELSE <<>>

\* Math.max(0, Number(x) || 0)
MaxZero(x) == IF Less(NumberOrZero(x), Zero) THEN Zero ELSE NumberOrZero(x)

\* the size rules of the settings whose size is the given one, by position
MatchingSizeRules(size) ==
    {k \in 1..Len(settings.tilePricesBySize) : settings.tilePricesBySize[k].size = size}

\* the price of the first size rule for the size
FirstSizeRulePrice(size) ==
    LET k == CHOOSE k \in MatchingSizeRules(size) :
                 \A j \in MatchingSizeRules(size) : k <= j
    IN  settings.tilePricesBySize[k].price

\* mutant: saving re-prices a line whose size has a size rule
ValidatedTilesWithSizePrice(ts) ==
    [i \in 1..Len(ts) |->
        [obj |-> TRUE, category |-> StringOfCategory(ts[i].category),
         group |-> IF ts[i].group = "" THEN "General" ELSE ts[i].group,
         size |-> ts[i].size, tileType |-> ts[i].tileType,
         sqm |-> Num(MaxZero(ts[i].sqm)), cartons |-> Num(MaxZero(ts[i].cartons)),
         unitPrice |-> IF MatchingSizeRules(ts[i].size) # {}
                       THEN Num(FirstSizeRulePrice(ts[i].size))
                       ELSE Num(MaxZero(ts[i].unitPrice)),
         driving |-> ts[i].driving]]

\* validatedTiles of handleSaveChanges
ValidatedTiles(ts) ==
    [i \in 1..Len(ts) |->
        [obj |-> TRUE, category |-> StringOfCategory(ts[i].category),
         group |-> IF ts[i].group = "" THEN "General" ELSE ts[i].group,
         size |-> ts[i].size, tileType |-> ts[i].tileType,
         sqm |-> Num(MaxZero(ts[i].sqm)), cartons |-> Num(MaxZero(ts[i].cartons)),
         unitPrice |-> Num(MaxZero(ts[i].unitPrice)), driving |-> ts[i].driving]]

Categories == {"", "Kitchen Wall"}

SqmInputs == {EmptyStr, Str(Zero), Str(Dec(420)), Str(Int2Num(0 - 3))}

CartonsInputs == {EmptyStr, Str(Zero), Str(Int2Num(3)), Str(Dec(125))}

\* onEditTiles: the parent opens the modal
onEditTiles ==
    /\ ~isOpen
    /\ isOpen' = TRUE
    /\ tiles' = EditableTiles(CurrentTiles(data))
    /\ UNCHANGED <<data, settings, summary, appState>>

\* onClose: Cancel
onClose ==
    /\ isOpen
    /\ isOpen' = FALSE
    /\ tiles' = EditableTiles(CurrentTiles(data))
    /\ UNCHANGED <<data, settings, summary, appState>>

SetRow(i, row, driving) ==
    /\ tiles' = [tiles EXCEPT ![i] = [row EXCEPT !.driving = driving]]
    /\ UNCHANGED <<data, settings, summary, isOpen, appState>>

handleSqmChange ==
    /\ isOpen
    /\ \E i \in 1..Len(tiles), value \in SqmInputs :
           SetRow(i, handleTileChange(tiles[i], "sqm", value), "sqm")

handleCategoryChange ==
    /\ isOpen
    /\ \E i \in 1..Len(tiles), value \in Categories :
           SetRow(i, handleTileChange(tiles[i], "category", value), "sqm")

handleCartonsChange ==
    /\ isOpen
    /\ \E i \in 1..Len(tiles), value \in CartonsInputs :
           SetRow(i, handleTileChange(tiles[i], "cartons", value), "cartons")

\* the checkbox passes e.target.checked, the negation of what it shows
handleWastageChange ==
    /\ isOpen
    /\ \E i \in 1..Len(tiles) :
           /\ tiles[i].addWastage \/ ~Less(Int2Num(MaxSqm), NumOf(tiles[i].sqm))
           /\ SetRow(i, handleTileChange(tiles[i], "addWastage", ~tiles[i].addWastage), "sqm")

handleAddTile ==
    /\ isOpen
    /\ Len(tiles) < MaxRows
    /\ tiles' = Append(tiles, NewRow)
    /\ UNCHANGED <<data, settings, summary, isOpen, appState>>

handleRemoveTile ==
    /\ isOpen
    /\ \E i \in 1..Len(tiles) :
           tiles' = SubSeq(tiles, 1, i - 1) \o SubSeq(tiles, i + 1, Len(tiles))
    /\ UNCHANGED <<data, settings, summary, isOpen, appState>>

\* handleSaveChanges, then the parent's onSave: handleQuotationUpdate({ ...data,
\* tiles }) and setIsEditTilesOpen(false) (App.tsx, lines 998-1001)
handleSaveChanges ==
    /\ isOpen
    /\ data' = [data EXCEPT !.tiles = Arr(ValidatedTiles(tiles))]
    /\ summary' = Render(data')
    /\ isOpen' = FALSE
    /\ tiles' = EditableTiles(CurrentTiles(data'))
    /\ UNCHANGED <<settings, appState>>

EditorSettings == Settings(Num(Dec(750)), FALSE, TRUE, Dec(140))

\* a line as the generator reconciles it: cartons = ceil(sqm / rate)
EditorTileLists ==
    { <<>>,
      <<[obj |-> TRUE, category |-> "Kitchen Wall", group |-> "General", size |-> "",
         tileType |-> "Wall", sqm |-> Num(Dec(450)), cartons |-> N(4), unitPrice |-> N(56),
         driving |-> "sqm"]>> }

InitEditor ==
    /\ settings = EditorSettings
    /\ \E tl \in EditorTileLists :
           data = Document(Arr(tl), Arr(<<>>), Arr(<<>>), <<N(17), N(0), Null, Null>>)
    /\ summary = Render(data)
    /\ tiles = EditableTiles(CurrentTiles(data))
    /\ isOpen = FALSE
    /\ AppIdle

NextEditor ==
    \/ onEditTiles
    \/ onClose
    \/ handleSqmChange
    \/ handleCategoryChange
    \/ handleCartonsChange
    \/ handleWastageChange
    \/ handleAddTile
    \/ handleRemoveTile
    \/ handleSaveChanges

SpecEditor == InitEditor /\ [][NextEditor]_vars

(***************************************************************************)
(* The fields of a row the editor stores as typed: size, group, tile type  *)
(* and unit price.  handleTileChange recalculates nothing for them.        *)
(***************************************************************************)
Sizes == {"60x60"}

GroupInputs == {""}

TileTypes == {"Wall"}

UnitPriceInputs == {Str(Int2Num(0 - 5))}

\* an edit of a field that drives no quantity
SetDetail(i, field, value) == SetRow(i, handleTileChange(tiles[i], field, value), tiles[i].driving)

handleSizeChange ==
    /\ isOpen
    /\ \E i \in 1..Len(tiles), value \in Sizes : SetDetail(i, "size", value)

handleGroupChange ==
    /\ isOpen
    /\ \E i \in 1..Len(tiles), value \in GroupInputs : SetDetail(i, "group", value)

handleTileTypeChange ==
    /\ isOpen
    /\ \E i \in 1..Len(tiles), value \in TileTypes : SetDetail(i, "tileType", value)

handleUnitPriceChange ==
    /\ isOpen
    /\ \E i \in 1..Len(tiles), value \in UnitPriceInputs : SetDetail(i, "unitPrice", value)

\* the quantities typed while the other fields are being edited
LineSqmInputs == {Str(Dec(450))}

LineCartonsInputs == {Str(Int2Num(3))}

handleLineSqmChange ==
    /\ isOpen
    /\ \E i \in 1..Len(tiles), value \in LineSqmInputs :
           SetRow(i, handleTileChange(tiles[i], "sqm", value), "sqm")

handleLineCartonsChange ==
    /\ isOpen
    /\ \E i \in 1..Len(tiles), value \in LineCartonsInputs :
           SetRow(i, handleTileChange(tiles[i], "cartons", value), "cartons")

\* a line with a price the user set (9999) and a size that has a size rule
\* with another price (30x30 -> 4500)
DetailTileLists ==
    { <<>>,
      <<[obj |-> TRUE, category |-> "Sitting Room", group |-> "General", size |-> "30x30",
         tileType |-> "Floor", sqm |-> Num(Dec(450)), cartons |-> N(3),
         unitPrice |-> N(9999), driving |-> "sqm"]>> }

InitDetails ==
    /\ settings = EditorSettings
    /\ \E tl \in DetailTileLists :
           data = Document(Arr(tl), Arr(<<>>), Arr(<<>>), <<N(17), N(0), Null, Null>>)
    /\ summary = Render(data)
    /\ tiles = EditableTiles(CurrentTiles(data))
    /\ isOpen = FALSE
    /\ AppIdle

NextDetails ==
    \/ onEditTiles
    \/ onClose
    \/ handleSizeChange
    \/ handleGroupChange
    \/ handleTileTypeChange
    \/ handleUnitPriceChange
    \/ handleLineSqmChange
    \/ handleLineCartonsChange
    \/ handleCategoryChange
    \/ handleWastageChange
    \/ handleAddTile
    \/ handleRemoveTile
    \/ handleSaveChanges

SpecDetails == InitDetails /\ [][NextDetails]_vars


(***************************************************************************)
(* The coverage rate of a category.  The settings give every bucket a rate *)
(* of its own, so that the bucket a category falls in shows in the rate    *)
(* and in the cartons the editor computes from it.                         *)
(***************************************************************************)
RateSettings ==
    [EditorSettings EXCEPT
        !.sittingRoomTileM2PerCarton = Dec(100), !.roomTileM2PerCarton = Dec(120),
        !.toiletWallTileM2PerCarton = Dec(150), !.toiletFloorTileM2PerCarton = Dec(200),
        !.kitchenWallTileM2PerCarton = Dec(240), !.kitchenFloorTileM2PerCarton = Dec(250),
        !.externalWallTileM2PerCarton = Dec(300), !.stepTileM2PerCarton = Dec(400),
        !.wallTileM2PerCarton = Dec(500), !.floorTileM2PerCarton = Dec(600)]

\* the categories a line can carry: typed names, abbreviations, blank ones
TypedCategories ==
    { "", "   ", "Corridor", "Kitchen Wall", "Kitchen Floor", "Toilet Wall", "Toilet Floor",
      "External Wall", "Step", "Staircase", "Wall", "Passage Wall", "Floor", "Sitting Room",
      "Bedroom", "Bathroom Wall", "Bathroom Floor", "Guest Toilet Wall",
      "Master Bedroom Toilet Floor", "Store", "Dining", "KW", " tw ", "SR" }

RateCategories == TypedCategories \cup {NoCategory}

\* a line of 30 sqm as it arrives from the generator, not yet edited
RateTileLists ==
    { <<[obj |-> TRUE, category |-> c, group |-> "General", size |-> "",
         tileType |-> "Unknown", sqm |-> N(30), cartons |-> N(0), unitPrice |-> N(56),
         driving |-> "none"]>> : c \in RateCategories }

handleCategoryEntry ==
    /\ isOpen
    /\ \E i \in 1..Len(tiles), value \in TypedCategories :
           SetRow(i, handleTileChange(tiles[i], "category", value), "sqm")

InitRates ==
    /\ settings = RateSettings
    /\ \E tl \in RateTileLists :
           data = Document(Arr(tl), Arr(<<>>), Arr(<<>>), <<N(17), N(0), Null, Null>>)
    /\ summary = Render(data)
    /\ tiles = EditableTiles(CurrentTiles(data))
    /\ isOpen = FALSE
    /\ AppIdle

NextRates ==
    \/ onEditTiles
    \/ onClose
    \/ handleCategoryEntry
    \/ handleLineSqmChange
    \/ handleSaveChanges

SpecRates == InitRates /\ [][NextRates]_vars


(***************************************************************************)
(* The settings modal (SettingsModal): a coverage rate is typed into its   *)
(* number input and the modal is saved, while the tile editor is closed.   *)
(***************************************************************************)
RateFields == {"kitchenWallTileM2PerCarton", "floorTileM2PerCarton"}

\* what the number input of a rate can hold: cleared, a negative, a positive
RateInputs == {EmptyStr, Str(Dec(0 - 150)), Str(Dec(250))}

\* handleSave, line 164: val === '' ? 0 : Number(val)
SavedNumber(val) == IF val = EmptyStr THEN Zero ELSE ToNumber(val)

\* handleChange on one rate field, then handleSave; the parent's
\* handleUpdateSettings stores the settings and the view renders again
handleSave ==
    /\ ~isOpen
    /\ \E name \in RateFields, val \in RateInputs :
           settings' = [settings EXCEPT ![name] = SavedNumber(val)]
    /\ summary' = calculateTotals(data, settings')
    /\ UNCHANGED <<data, tiles, isOpen, appState>>

InitSettings ==
    /\ settings = EditorSettings
    /\ \E tl \in EditorTileLists :
           data = Document(Arr(tl), Arr(<<>>), Arr(<<>>), <<N(17), N(0), Null, Null>>)
    /\ summary = Render(data)
    /\ tiles = EditableTiles(CurrentTiles(data))
    /\ isOpen = FALSE
    /\ AppIdle

NextSettings ==
    \/ handleSave
    \/ onEditTiles
    \/ onClose
    \/ handleLineSqmChange
    \/ handleCategoryChange
    \/ handleAddTile
    \/ handleSaveChanges

SpecSettings == InitSettings /\ [][NextSettings]_vars

(***************************************************************************)
(* The wastage toggle over editing sessions: the editor is opened, wastage *)
(* is switched on and off, the lines are saved and the editor is opened    *)
(* again.  No quantity is typed, so every sqm of a run comes from the net  *)
(* sqm of the stored line through the toggle alone.                        *)
(***************************************************************************)
\* two stored lines with net quantities: 4.5 sqm and 3 sqm
WastageTileList ==
    << [obj |-> TRUE, category |-> "Kitchen Wall", group |-> "General", size |-> "",
        tileType |-> "Wall", sqm |-> Num(Dec(450)), cartons |-> N(4), unitPrice |-> N(56),
        driving |-> "sqm"],
       [obj |-> TRUE, category |-> "", group |-> "General", size |-> "",
        tileType |-> "Floor", sqm |-> N(3), cartons |-> N(2), unitPrice |-> N(65),
        driving |-> "sqm"] >>

InitWastage ==
    /\ settings = EditorSettings
    /\ data = Document(Arr(WastageTileList), Arr(<<>>), Arr(<<>>), <<N(17), N(0), Null, Null>>)
    /\ summary = Render(data)
    /\ tiles = EditableTiles(CurrentTiles(data))
    /\ isOpen = FALSE
    /\ AppIdle

NextWastage ==
    \/ onEditTiles
    \/ onClose
    \/ handleWastageChange
    \/ handleCategoryChange
    \/ handleSaveChanges

SpecWastage == InitWastage /\ [][NextWastage]_vars

(***************************************************************************)
(* The quotation and invoice lists of AuthenticatedApp (App.tsx).  A       *)
(* quotation is [id, status, invoiceId, doc], invoiceId 0 when undefined;  *)
(* an invoice is [id, quotationId, invoiceNumber, doc].  An event handler  *)
(* reads the state of the last render, which React commits before the     *)
(* next event for updates made in the handler's synchronous part; the part *)
(* of an async handler after its await runs later, on the values it        *)
(* captured, and is kept in pending until then.                            *)
(***************************************************************************)
MaxQuotations == 2

MaxInvoices == 2

\* the largest invoice sequence number a run issues
MaxSequence == 3

\* crypto.randomUUID(): the ids a run can draw
Ids == 1..(MaxQuotations + MaxInvoices)

\* new Date().getFullYear()
Years == {2026}

\* what the Invoice Prefix field of the settings can hold
Prefixes == {"", "QT"}

Quotation(id, status, doc) == [id |-> id, status |-> status, invoiceId |-> 0, doc |-> doc]

\* the ids of a list's entries
IdsOf(list) == {list[k].id : k \in 1..Len(list)}

\* list.find(x => x.id === id), for an id of the list
Find(list, id) == list[CHOOSE k \in 1..Len(list) : list[k].id = id /\ \A j \in 1..(k - 1) : list[j].id # id]

\* prev.map(q => q.id === updated.id ? updated : q)
MapReplace(list, updated) ==
    [k \in 1..Len(list) |-> IF list[k].id = updated.id THEN updated ELSE list[k]]

\* prev.filter(x => x.id !== id)
RECURSIVE FilterOut(_, _)
FilterOut(list, id) ==
    IF list = <<>> THEN <<>>
    ELSE IF list[1].id = id THEN FilterOut(Tail(list), id)
    ELSE <<list[1]>> \o FilterOut(Tail(list), id)

\* every id some record still refers to; a new UUID is none of them
UsedIds ==
    IdsOf(allQuotations) \cup IdsOf(allInvoices) \cup {quotationData.id}
    \cup {allQuotations[k].invoiceId : k \in 1..Len(allQuotations)}
    \cup {allInvoices[k].quotationId : k \in 1..Len(allInvoices)}
    \cup {p.quote.id : p \in pending} \cup {p.quote.invoiceId : p \in pending}
    \cup {p.invoiceId : p \in pending}

\* String(n): the decimal digits of n >= 0
RECURSIVE Digits(_)
Digits(n) == IF n < 10 THEN <<n>> ELSE Append(Digits(n \div 10), n % 10)

\* String(n).padStart(4, '0')
PadStart4(ds) ==
    IF Len(ds) >= 4 THEN ds
    ELSE [k \in 1..4 |-> IF k <= 4 - Len(ds) THEN 0 ELSE ds[k - (4 - Len(ds))]]

\* parseInt(match[1], 10)
RECURSIVE ParseInt(_)
ParseInt(ds) ==
    IF ds = <<>> THEN 0 ELSE 10 * ParseInt(SubSeq(ds, 1, Len(ds) - 1)) + ds[Len(ds)]

\* `${prefix}-${year}-${String(nextSequence).padStart(4, '0')}`
InvoiceNumber(prefix, year, nextSequence) ==
    [prefix |-> prefix, year |-> year, digits |-> PadStart4(Digits(nextSequence))]

\* inv.invoiceNumber.match(pattern): the number starts with prefix-year-digits
Matches(number, prefix, year) == number.prefix = prefix /\ number.year = year

\* mutant: the sequence restarts from the number of invoices
NextSequenceByCount(invoices, k, prefix, year) == Len(invoices) + 1

\* the forEach over allInvoices (lines 452-460), through its first k entries
RECURSIVE NextSequence(_, _, _, _)
NextSequence(invoices, k, prefix, year) ==
    IF k = 0 THEN 1
    ELSE LET before == NextSequence(invoices, k - 1, prefix, year)
             currentNum == ParseInt(invoices[k].invoiceNumber.digits)
         IN  IF Matches(invoices[k].invoiceNumber, prefix, year) /\ currentNum >= before
             THEN currentNum + 1
             ELSE before

\* the while loop (lines 463-466): the first sequence from n on whose number
\* no invoice carries
RECURSIVE FirstUnusedSequence(_, _, _, _)
FirstUnusedSequence(invoices, prefix, year, n) ==
    IF \E k \in 1..Len(invoices) : invoices[k].invoiceNumber = InvoiceNumber(prefix, year, n)
    THEN FirstUnusedSequence(invoices, prefix, year, n + 1)
    ELSE n

\* the fields newInvoice copies from the quotation (lines 475-485); the
\* others are not keys of the invoice
InvoiceDocument(doc) ==
    [tiles |-> doc.tiles, materials |-> doc.materials, adjustments |-> NoArr,
     workmanshipRate |-> doc.workmanshipRate, maintenance |-> doc.maintenance,
     profitPercentage |-> doc.profitPercentage, depositPercentage |-> Undefined,
     showMaterials |-> IF doc.showMaterials = "absent" THEN "undefined" ELSE doc.showMaterials,
     showAdjustments |->
         IF doc.showAdjustments = "absent" THEN "undefined" ELSE doc.showAdjustments,
     showWorkmanship |-> "absent", showMaintenance |-> "absent", showTax |-> "absent"]

\* handleQuotationUpdate (lines 247-255)
handleQuotationUpdate(updatedQuotation) ==
    /\ quotationData' = updatedQuotation
    /\ allQuotations' = MapReplace(allQuotations, updatedQuotation)

\* handleViewQuotation: the quotation is opened in the generator and the job
\* notes are cleared
handleViewQuotation ==
    /\ \E id \in IdsOf(allQuotations) : quotationData' = Find(allQuotations, id)
    /\ history' = [past |-> <<>>, present |-> <<>>, future |-> <<>>]
    /\ UNCHANGED <<allQuotations, allInvoices, pending, canUndo, canRedo>>
    /\ UNCHANGED <<data, settings, summary, tiles, isOpen>>

\* StatusControl.handleStatusChange: offered for a pending quotation
handleStatusChange ==
    /\ \E id \in IdsOf(allQuotations), newStatus \in {"Accepted", "Rejected"} :
           /\ Find(allQuotations, id).status = "Pending"
           /\ handleQuotationUpdate([Find(allQuotations, id) EXCEPT !.status = newStatus])
    /\ UNCHANGED <<allInvoices, pending, history, canUndo, canRedo>>
    /\ UNCHANGED <<data, settings, summary, tiles, isOpen>>

handleDuplicateQuotation ==
    /\ Len(allQuotations) < MaxQuotations
    /\ \E id \in IdsOf(allQuotations), newId \in Ids \ UsedIds :
           /\ \A other \in Ids \ UsedIds : newId <= other
           /\ allQuotations' =
                  <<[Find(allQuotations, id) EXCEPT
                         !.id = newId, !.status = "Pending", !.invoiceId = 0]>>
                  \o allQuotations
    /\ UNCHANGED <<allInvoices, quotationData, pending, history, canUndo, canRedo>>
    /\ UNCHANGED <<data, settings, summary, tiles, isOpen>>

\* handleConvertToInvoice up to its await db.saveInvoice (lines 438-490); the
\* button is offered for an accepted quotation without invoiceId
handleConvertToInvoice ==
    /\ Len(allInvoices) < MaxInvoices
    /\ \E id \in IdsOf(allQuotations), newId \in Ids \ UsedIds, year \in Years :
           LET quote == Find(allQuotations, id)
               prefix == IF settings.invoicePrefix = "" THEN "INV"
                         ELSE settings.invoicePrefix
               nextSequence ==
                   FirstUnusedSequence(allInvoices, prefix, year,
                       NextSequence(allInvoices, Len(allInvoices), prefix, year))
               newInvoice ==
                   [id |-> newId, quotationId |-> quote.id,
                    invoiceNumber |-> InvoiceNumber(prefix, year, nextSequence),
                    doc |-> InvoiceDocument(quote.doc)]
           IN  /\ \A other \in Ids \ UsedIds : newId <= other
               /\ quote.status = "Accepted" /\ quote.invoiceId = 0
               /\ nextSequence <= MaxSequence
               /\ allInvoices' = <<newInvoice>> \o allInvoices
               /\ pending' = pending \cup
                      {[op |-> "convert", quote |-> quote, invoiceId |-> newId]}
    /\ UNCHANGED <<allQuotations, quotationData, history, canUndo, canRedo>>
    /\ UNCHANGED <<data, settings, summary, tiles, isOpen>>

\* handleConvertToInvoice after the await (lines 492-493)
ConvertToInvoiceSaved ==
    /\ \E p \in pending :
           /\ p.op = "convert"
           /\ handleQuotationUpdate(
                  [p.quote EXCEPT !.status = "Invoiced", !.invoiceId = p.invoiceId])
           /\ pending' = pending \ {p}
    /\ UNCHANGED <<allInvoices, history, canUndo, canRedo>>
    /\ UNCHANGED <<data, settings, summary, tiles, isOpen>>

\* handleDeleteInvoice up to its await db.deleteInvoice (lines 568-571)
handleDeleteInvoice ==
    /\ \E id \in IdsOf(allInvoices) :
           LET inv == Find(allInvoices, id)
           IN  /\ allInvoices' = FilterOut(allInvoices, id)
               /\ pending' = pending \cup
                      (IF inv.quotationId \in IdsOf(allQuotations)
                       THEN {[op |-> "delete", quote |-> Find(allQuotations, inv.quotationId),
                              invoiceId |-> 0]}
                       ELSE {})
    /\ UNCHANGED <<allQuotations, quotationData, history, canUndo, canRedo>>
    /\ UNCHANGED <<data, settings, summary, tiles, isOpen>>

\* handleDeleteInvoice after the await (lines 572-579)
DeleteInvoiceDone ==
    /\ \E p \in pending :
           /\ p.op = "delete"
           /\ allQuotations' =
                  MapReplace(allQuotations,
                             [p.quote EXCEPT !.status = "Accepted", !.invoiceId = 0])
           /\ pending' = pending \ {p}
    /\ UNCHANGED <<allInvoices, quotationData, history, canUndo, canRedo>>
    /\ UNCHANGED <<data, settings, summary, tiles, isOpen>>

\* the settings modal saved with a new Invoice Prefix (a text field)
handlePrefixSave ==
    /\ \E val \in Prefixes : settings' = [settings EXCEPT !.invoicePrefix = val]
    /\ UNCHANGED <<data, summary, tiles, isOpen, appState>>

\* a plain quotation, and one with adjustments, a deposit and flags set
AppDocuments ==
    { Document(Arr(<<Tile("General", N(3), N(2), N(56))>>), Arr(<<>>), Arr(<<>>),
               <<N(17), N(0), Null, Null>>),
      [Document(Arr(<<Tile("General", N(3), N(2), N(56))>>), Arr(<<>>),
                Arr(<<Adjustment(N(0 - 50)), Adjustment(N(20))>>),
                <<N(17), N(100), N(10), N(50)>>)
           EXCEPT !.showTax = "true", !.showWorkmanship = "false"] }

\* the state after the data is loaded: one stored quotation, not yet accepted
InitApp ==
    /\ settings = Settings(Num(Dec(750)), FALSE, TRUE, Dec(150))
    /\ data = Document(Arr(<<>>), Arr(<<>>), Arr(<<>>), <<N(17), N(0), Null, Null>>)
    /\ summary = Render(data)
    /\ tiles = <<>>
    /\ isOpen = FALSE
    /\ \E d \in AppDocuments : allQuotations = <<Quotation(1, "Pending", d)>>
    /\ allInvoices = <<>>
    /\ quotationData = NoQuotation
    /\ pending = {}
    /\ history = [past |-> <<>>, present |-> <<>>, future |-> <<>>]
    /\ canUndo = FALSE
    /\ canRedo = FALSE

NextApp ==
    \/ handleViewQuotation
    \/ handleStatusChange
    \/ handleDuplicateQuotation
    \/ handleConvertToInvoice
    \/ ConvertToInvoiceSaved
    \/ handleDeleteInvoice
    \/ DeleteInvoiceDone
    \/ handlePrefixSave

SpecApp == InitApp /\ [][NextApp]_vars

(***************************************************************************)
(* The job-notes undo history (useHistoryState, App.tsx).  history is the  *)
(* hook's state; canUndo and canRedo are the values the last render        *)
(* computed from it, which the undo and redo callbacks of that render and  *)
(* the Undo and Redo buttons read.                                         *)
(***************************************************************************)
MaxNotes == 2

\* the longest past a run builds
MaxPast == 3

Notes == {"a", "b"}

\* EXAMPLE_INPUT.split('\n').filter(n => n.trim() !== '')
ExampleNotes == <<"a", "b">>

\* JSON.stringify of a string array, or of undefined
RECURSIVE JoinQuoted(_)
JoinQuoted(list) ==
    IF list = <<>> THEN <<>>
    ELSE IF Len(list) = 1 THEN <<"\"", list[1], "\"">>
    ELSE <<"\"", list[1], "\"", ",">> \o JoinQuoted(Tail(list))

JSONStringify(value) ==
    IF value = Undefined THEN Undefined ELSE <<"[">> \o JoinQuoted(value) \o <<"]">>

\* prev.filter((_, index) => index !== indexToRemove), index counted from 1
RemoveAt(list, i) == SubSeq(list, 1, i - 1) \o SubSeq(list, i + 1, Len(list))

\* mutant: every set is recorded, also one that changes nothing
HistorySetAlways(current, newState) ==
    [past |-> Append(current.past, current.present), present |-> newState, future |-> <<>>]

\* the updater of set (lines 50-63)
HistorySet(current, newState) ==
    IF JSONStringify(newState) = JSONStringify(current.present) THEN current
    ELSE [past |-> Append(current.past, current.present), present |-> newState,
          future |-> <<>>]

\* the updater of undo (lines 68-76); past[-1] of an empty past is undefined
HistoryUndo(current) ==
    LET n == Len(current.past)
    IN  [past |-> IF n = 0 THEN <<>> ELSE SubSeq(current.past, 1, n - 1),
         present |-> IF n = 0 THEN Undefined ELSE current.past[n],
         future |-> <<current.present>> \o current.future]

\* the updater of redo (lines 81-89); future[0] of an empty future is undefined
HistoryRedo(current) ==
    [past |-> Append(current.past, current.present),
     present |-> IF current.future = <<>> THEN Undefined ELSE current.future[1],
     future |-> IF current.future = <<>> THEN <<>> ELSE Tail(current.future)]

\* reset (lines 92-98)
HistoryReset(newState) == [past |-> <<>>, present |-> newState, future |-> <<>>]

\* the render that follows a state change: lines 46-47
Rendered(h) ==
    /\ canUndo' = (Len(h.past) > 0)
    /\ canRedo' = (Len(h.future) > 0)

historyFrame == <<data, settings, summary, tiles, isOpen, allQuotations, allInvoices,
                  quotationData, pending>>

\* InputSection.handleAddNote: setNotes(prev => [...prev, currentNote.trim()])
handleAddNote ==
    /\ Len(history.present) < MaxNotes
    /\ Len(history.past) < MaxPast
    /\ \E note \in Notes : history' = HistorySet(history, Append(history.present, note))
    /\ Rendered(history')
    /\ UNCHANGED historyFrame

\* InputSection.handleRemoveNote: setNotes(prev => prev.filter(...))
handleRemoveNote ==
    /\ Len(history.past) < MaxPast
    /\ \E i \in 1..Len(history.present) :
           history' = HistorySet(history, RemoveAt(history.present, i))
    /\ Rendered(history')
    /\ UNCHANGED historyFrame

\* InputSection.handleLoadExample: setNotes(EXAMPLE_INPUT...)
handleLoadExample ==
    /\ Len(history.past) < MaxPast
    /\ history' = HistorySet(history, ExampleNotes)
    /\ Rendered(history')
    /\ UNCHANGED historyFrame

\* the Undo button, disabled unless canUndo
onUndo ==
    /\ canUndo
    /\ history' = HistoryUndo(history)
    /\ Rendered(history')
    /\ UNCHANGED historyFrame

\* the Redo button, disabled unless canRedo
onRedo ==
    /\ canRedo
    /\ history' = HistoryRedo(history)
    /\ Rendered(history')
    /\ UNCHANGED historyFrame

\* onNewQuotation: setJobNotes([]); resetJobNotes([])
onNewQuotation ==
    /\ history' = HistoryReset(<<>>)
    /\ Rendered(history')
    /\ UNCHANGED historyFrame

InitHistory ==
    /\ settings = Settings(Num(Dec(750)), FALSE, TRUE, Dec(150))
    /\ data = Document(Arr(<<>>), Arr(<<>>), Arr(<<>>), <<N(17), N(0), Null, Null>>)
    /\ summary = Render(data)
    /\ tiles = <<>>
    /\ isOpen = FALSE
    /\ AppIdle

NextHistory ==
    \/ handleAddNote
    \/ handleRemoveNote
    \/ handleLoadExample
    \/ onUndo
    \/ onRedo
    \/ onNewQuotation

\* the job notes as the generator view drives them: every event is followed
\* by its render before the next event
SpecHistory == InitHistory /\ [][NextHistory]_vars

\* the values the callers of set pass or compute from the present; an updater
\* applied to undefined throws
SetValues(present) ==
    IF present = Undefined THEN {ExampleNotes}
    ELSE {ExampleNotes}
         \cup {Append(present, note) : note \in IF Len(present) < MaxNotes THEN Notes ELSE {}}
         \cup {RemoveAt(present, i) : i \in 1..Len(present)}

\* set called from any render
set ==
    /\ Len(history.past) < MaxPast
    /\ \E newState \in SetValues(history.present) : history' = HistorySet(history, newState)
    /\ UNCHANGED <<canUndo, canRedo, historyFrame>>

\* undo called from the last render: its canUndo is the captured one (line 67)
undo ==
    /\ Len(history.future) < MaxPast
    /\ history' = IF canUndo THEN HistoryUndo(history) ELSE history
    /\ UNCHANGED <<canUndo, canRedo, historyFrame>>

\* redo called from the last render (line 80)
redo ==
    /\ Len(history.past) < MaxPast
    /\ history' = IF canRedo THEN HistoryRedo(history) ELSE history
    /\ UNCHANGED <<canUndo, canRedo, historyFrame>>

reset ==
    /\ history' = HistoryReset(<<>>)
    /\ UNCHANGED <<canUndo, canRedo, historyFrame>>

\* the component renders again with the current history
render ==
    /\ Rendered(history)
    /\ UNCHANGED <<history, historyFrame>>

NextHistoryCalls ==
    \/ set
    \/ undo
    \/ redo
    \/ reset
    \/ render

\* the hook's callbacks called in any order between renders
SpecHistoryCalls == InitHistory /\ [][NextHistoryCalls]_vars

(***************************************************************************)
(* What the quotation view shows beside the summary (Auth.tsx)             *)
(***************************************************************************)
\* JavaScript x * y on field values: both operands go through ToNumber
JsMul(x, y) == Mul(ToNumber(x), ToNumber(y))

\* tile.group || 'General'
GroupName(tile) == IF tile.group = "" THEN "General" ELSE tile.group

\* groupedTiles: the tiles of one group, in document order
RECURSIVE GroupTiles(_, _, _)
GroupTiles(ts, g, i) ==
    IF i = 0 THEN <<>>
    ELSE IF GroupName(ts[i]) = g THEN Append(GroupTiles(ts, g, i - 1), ts[i])
         ELSE GroupTiles(ts, g, i - 1)

RECURSIVE GroupTotalUpTo(_, _)
GroupTotalUpTo(ts, i) ==
    IF i = 0 THEN Zero
    ELSE Add(GroupTotalUpTo(ts, i - 1), JsMul(ts[i].cartons, ts[i].unitPrice))

getGroupTotal(ts) == GroupTotalUpTo(ts, Len(ts))

\* the Maintenance row of the estimate summary: the amount shown, 0 when the
\* row is not rendered
MaintenanceShown(d, st) ==
    IF FlagOr(d.showMaintenance, st.showMaintenance) /\ IsPos(ToNumber(d.maintenance))
    THEN ToNumber(d.maintenance)
    ELSE Zero

\* the effective flag of the preview and of the exports: data.flag ?? default
ExportShows(d, st, f) ==
    CASE f = "showTax" -> FlagOr(d.showTax, st.showTax)
      [] f = "showMaintenance" -> FlagOr(d.showMaintenance, st.showMaintenance)
      [] OTHER -> FlagOr(d[f], TRUE)

(***************************************************************************)
(* Properties of calculateTotals and of the view                           *)
(***************************************************************************)
FlagNames == {"showMaterials", "showAdjustments", "showWorkmanship", "showMaintenance", "showTax"}

\* the documented default of a flag that is absent
FlagDefault(f) ==
    CASE f = "showTax" -> settings.showTax
      [] f = "showMaintenance" -> settings.showMaintenance
      [] OTHER -> TRUE

FlagOn(d, f) == IF d[f] = "absent" THEN FlagDefault(f) ELSE d[f] = "true"

\* a field holding a finite number, as a number or as a numeric string
WellFormed(x) == (x[1] = "number" \/ x[1] = "string") /\ IsFiniteNum(x[2])

ValueOf(x) == IF WellFormed(x) THEN x[2] ELSE Zero

SummaryFields ==
    {"totalSqm", "totalTileCost", "totalMaterialCost", "workmanshipCost",
     "workmanshipAndMaintenance", "profitAmount", "subtotal", "totalAdjustments",
     "taxAmount", "grandTotal", "depositAmount"}

Percent(x, p) == Mul(x, Div100(p))

\* C1: the summary follows the fixed order: preProfitTotal = tiles + materials +
\* workmanship + maintenance contribution; profitAmount = preProfitTotal *
\* profitPercentage / 100 (0 for a null or zero percentage); subtotal =
\* preProfitTotal + profitAmount; taxAmount is taken on subtotal +
\* totalAdjustments; grandTotal = subtotal + totalAdjustments + taxAmount.
C1_FixedOrder ==
    ~summary.threw =>
        LET maintenanceContribution ==
                IF FlagOn(data, "showMaintenance") THEN ValueOf(data.maintenance) ELSE Zero
            preProfitTotal ==
                Add(Add(Add(summary.totalTileCost, summary.totalMaterialCost),
                        summary.workmanshipCost), maintenanceContribution)
            pct == data.profitPercentage
            postAdjustment == Add(summary.subtotal, summary.totalAdjustments)
        IN  /\ summary.workmanshipAndMaintenance =
                   Add(summary.workmanshipCost, maintenanceContribution)
            /\ summary.profitAmount =
                   IF pct = Null \/ ValueOf(pct) = Zero THEN Zero
                   ELSE Percent(preProfitTotal, ValueOf(pct))
            /\ summary.subtotal = Add(preProfitTotal, summary.profitAmount)
            /\ summary.taxAmount =
                   IF FlagOn(data, "showTax")
                   THEN Percent(postAdjustment, ValueOf(settings.taxPercentage))
                   ELSE Zero
            /\ summary.grandTotal = Add(postAdjustment, summary.taxAmount)

\* C1 witness: a summary with profit, adjustments and tax, where the tax differs
\* from the tax on the pre-adjustment subtotal
C1_Witness ==
    /\ ~summary.threw
    /\ summary.profitAmount # Zero
    /\ summary.totalAdjustments # Zero
    /\ summary.taxAmount # Zero
    /\ summary.taxAmount # Percent(summary.subtotal, ValueOf(settings.taxPercentage))

\* C2: a flag that is false zeroes its contribution, the toggle keeps the line
\* items, and switching a flag that is on off and back on reproduces the
\* grand total.
C2_VisibilityZeroing ==
    /\ ~summary.threw =>
        /\ data.showMaterials = "false" => summary.totalMaterialCost = Zero
        /\ data.showWorkmanship = "false" => summary.workmanshipCost = Zero
        /\ data.showMaintenance = "false" =>
               summary.workmanshipAndMaintenance = summary.workmanshipCost
        /\ data.showAdjustments = "false" => summary.totalAdjustments = Zero
        /\ data.showTax = "false" => summary.taxAmount = Zero
    /\ \A f \in FlagNames :
        LET off == HandleShowToggle(data, f, FALSE)
            back == HandleShowToggle(off, f, TRUE)
        IN  /\ off.tiles = data.tiles /\ off.materials = data.materials
            /\ off.adjustments = data.adjustments /\ off.maintenance = data.maintenance
            /\ off.workmanshipRate = data.workmanshipRate
            /\ \A g \in FlagNames \ {f} : off[g] = data[g]
            /\ FlagOn(data, f) => Render(back).grandTotal = summary.grandTotal

\* C2 witness: materials and adjustments hidden with their lines still in the
\* document, tax switched on and charged
C2_Witness ==
    /\ ~summary.threw
    /\ data.showMaterials = "false" /\ IsArray(data.materials) /\ Len(data.materials[2]) > 0
    /\ summary.totalMaterialCost = Zero
    /\ data.showAdjustments = "false" /\ IsArray(data.adjustments)
    /\ data.showTax = "true" /\ summary.taxAmount # Zero
    /\ Render(HandleShowToggle(data, "showMaterials", TRUE)).grandTotal # summary.grandTotal

RECURSIVE ExpectedSqm(_, _)
ExpectedSqm(ts, i) ==
    IF i = 0 THEN Zero ELSE Add(ExpectedSqm(ts, i - 1), ValueOf(ts[i].sqm))

RECURSIVE ExpectedCost(_, _)
ExpectedCost(ts, i) ==
    IF i = 0 THEN Zero
    ELSE Add(ExpectedCost(ts, i - 1),
             IF WellFormed(ts[i].cartons) /\ WellFormed(ts[i].unitPrice)
             THEN Mul(ts[i].cartons[2], ts[i].unitPrice[2])
             ELSE Zero)

RECURSIVE ExpectedMaterialCost(_, _)
ExpectedMaterialCost(ms, i) ==
    IF i = 0 THEN Zero
    ELSE Add(ExpectedMaterialCost(ms, i - 1),
             IF WellFormed(ms[i].quantity) /\ WellFormed(ms[i].unitPrice)
             THEN Mul(ms[i].quantity[2], ms[i].unitPrice[2])
             ELSE Zero)

ListOf(a) == IF IsArray(a) THEN a[2] ELSE <<>>

\* C3 (amended): every field of the summary is a finite number, and each
\* malformed field counts as 0: a tile line adds cartons * unitPrice to
\* totalTileCost only when both are well-formed and adds its sqm to totalSqm
\* only when sqm is well-formed; a material line adds quantity * unitPrice only
\* when both are well-formed; well-formed lines count in full.
C3_MalformedFieldsCountZero ==
    ~summary.threw =>
        /\ \A f \in SummaryFields : IsFiniteNum(summary[f])
        /\ summary.totalSqm = ExpectedSqm(ListOf(data.tiles), Len(ListOf(data.tiles)))
        /\ summary.totalTileCost = ExpectedCost(ListOf(data.tiles), Len(ListOf(data.tiles)))
        /\ FlagOn(data, "showMaterials") =>
               summary.totalMaterialCost =
                   ExpectedMaterialCost(ListOf(data.materials), Len(ListOf(data.materials)))

\* C3 witness: a document with a well-formed tile line and one whose unitPrice
\* is text, summed to the well-formed line's cost
C3_Witness ==
    /\ ~summary.threw
    /\ IsArray(data.tiles)
    /\ \E i, j \in 1..Len(data.tiles[2]) :
           /\ data.tiles[2][i].unitPrice = Text
           /\ WellFormed(data.tiles[2][i].cartons) /\ data.tiles[2][i].cartons[2] # Zero
           /\ summary.totalTileCost = TileLineCost(data.tiles[2][j])
           /\ summary.totalTileCost # Zero
    /\ data.profitPercentage = Text

MalformedField(x) == ~WellFormed(x)

WithoutLine(ts, i) == SubSeq(ts, 1, i - 1) \o SubSeq(ts, i + 1, Len(ts))

\* C3 as stated: a tile line with a malformed sqm, cartons or unitPrice
\* contributes exactly 0 to the totals (the tile cost is that of the document
\* without the line) and every field of the summary is finite.
C3_MalformedLineContributesZero ==
    (~summary.threw /\ IsArray(data.tiles)) =>
        /\ \A f \in SummaryFields : IsFiniteNum(summary[f])
        /\ \A i \in 1..Len(data.tiles[2]) :
               LET t == data.tiles[2][i]
                   rest == WithoutLine(data.tiles[2], i)
               IN  (MalformedField(t.sqm) \/ MalformedField(t.cartons)
                        \/ MalformedField(t.unitPrice))
                   => summary.totalTileCost = SumTileCost(rest, Len(rest))

\* C4: calculateTotals never throws: it returns a summary for every document.
C4_NeverThrows == ~summary.threw

Groups == {"General", "Flat 1"}

RECURSIVE SumOverGroups(_, _)
SumOverGroups(ts, gs) ==
    IF gs = {} THEN Zero
    ELSE LET g == CHOOSE x \in gs : TRUE
         IN  Add(getGroupTotal(GroupTiles(ts, g, Len(ts))), SumOverGroups(ts, gs \ {g}))

\* C5: the group totals shown add up to summary.totalTileCost, and the
\* maintenance amount shown is the maintenance contribution of the summary.
C5_SurfacesShowTheSummary ==
    (~summary.threw /\ IsArray(data.tiles)) =>
        /\ SumOverGroups(data.tiles[2], Groups) = summary.totalTileCost
        /\ MaintenanceShown(data, settings) =
               Sub(summary.workmanshipAndMaintenance, summary.workmanshipCost)

(***************************************************************************)
(* Properties of the tile editor                                           *)
(***************************************************************************)
\* the step of row i that handleTileChange(i, field, value) takes
EditStep(i, field, value, driving) ==
    /\ isOpen /\ isOpen'
    /\ i \in 1..Len(tiles)
    /\ tiles' = [tiles EXCEPT ![i] = [handleTileChange(tiles[i], field, value)
                                          EXCEPT !.driving = driving]]

\* the least whole number of cartons covering sqm at a rate, for sqm >= 0
ExactCeil(sqm, rate) ==
    LET q == Quot(sqm, rate) IN Int2Num((q[1] + q[2] - 1) \div q[2])

AbsNum(a) == IF Less(a, Zero) THEN Sub(Zero, a) ELSE a

\* x is c * rate rounded to two decimals
IsRounded2(x, c, rate) ==
    /\ IsInteger(Mul(x, Int2Num(100)))
    /\ Leq(AbsNum(Sub(x, Mul(c, rate))), Norm(1, 200))

\* C6: when sqm is the edited field, cartons becomes ceil(sqm / coverageRate)
\* whatever it was before: the least whole number k with k * rate >= sqm, so
\* that an exact division gives that whole number.
C6_SqmEditSetsCeil ==
    [][\A i \in 1..Len(tiles), value \in SqmInputs \ {EmptyStr} :
           (EditStep(i, "sqm", value, "sqm") /\ ~Less(parseFloat(value), Zero))
           => ToNumber(tiles'[i].cartons) =
                  ExactCeil(parseFloat(value), getCoverageRate(tiles[i].category))]_vars

\* C7: every saved line is reconciled for the rate of its category: cartons =
\* ceil(sqm / rate) when its last quantity edit drove from sqm, sqm = cartons *
\* rate (to two decimals) when it drove from cartons.
C7_SavedLinesReconciled ==
    \A i \in 1..Len(CurrentTiles(data)) :
        LET t == CurrentTiles(data)[i]
            rate == getCoverageRate(t.category)
        IN  /\ t.driving = "sqm" => t.cartons[2] = ExactCeil(t.sqm[2], rate)
            /\ t.driving = "cartons" => IsRounded2(t.sqm[2], t.cartons[2], rate)

\* C8: when cartons is the edited field with a value > 0, sqm becomes cartons *
\* coverageRate rounded to two decimals and cartons keeps the entered value.
C8_CartonsEditSetsSqm ==
    [][\A i \in 1..Len(tiles), value \in CartonsInputs :
           (EditStep(i, "cartons", value, "cartons") /\ IsPos(parseFloat(value)))
           => /\ tiles'[i].cartons = value
              /\ tiles'[i].sqm[1] = "number"
              /\ IsRounded2(tiles'[i].sqm[2], parseFloat(value),
                            getCoverageRate(tiles[i].category))]_vars

\* C8 witness: a row whose cartons hold the typed 1.25 and whose sqm is the
\* rounded product 1.88 (1.25 * 1.5 = 1.875)
C8_Witness ==
    /\ isOpen
    /\ \E i \in 1..Len(tiles) :
           /\ tiles[i].driving = "cartons"
           /\ tiles[i].cartons = Str(Dec(125))
           /\ getCoverageRate(tiles[i].category) = Dec(150)
           /\ tiles[i].sqm = Num(Dec(188))

\* C9: the sqm a cartons edit derives from a positive whole number of cartons
\* gives the same cartons back on the sqm-driven path.
C9_CartonsRoundTrip ==
    \A i \in 1..Len(tiles) :
        (tiles[i].driving = "cartons" /\ IsPos(parseFloat(tiles[i].cartons))
            /\ IsInteger(parseFloat(tiles[i].cartons)))
        => CartonsFromSqm(NumOf(tiles[i].sqm), getCoverageRate(tiles[i].category))
               = parseFloat(tiles[i].cartons)

IsZeroOrEmpty(x) == x = EmptyStr \/ ToNumber(x) = Zero

IsNonNegative(x) == x[1] = "number" /\ IsFiniteNum(x[2]) /\ ~Less(x[2], Zero)

\* C11: every tile the editor saves is in the TileLineItem domain: cartons a
\* non-negative integer, sqm and unitPrice finite numbers >= 0, group a
\* non-empty string.
C11_SavedTilesInDomain ==
    \A i \in 1..Len(CurrentTiles(data)) :
        LET t == CurrentTiles(data)[i]
        IN  /\ IsNonNegative(t.cartons) /\ IsInteger(t.cartons[2])
            /\ IsNonNegative(t.sqm)
            /\ IsNonNegative(t.unitPrice)
            /\ t.group # ""

(***************************************************************************)
(* Properties of the unit price                                            *)
(***************************************************************************)
\* row i differs between the two states in its unitPrice only
OnlyUnitPriceChanged(i) == tiles' = [tiles EXCEPT ![i].unitPrice = tiles'[i].unitPrice]

\* a step of the open editor that keeps the rows
RowsKept == isOpen /\ isOpen' /\ Len(tiles') = Len(tiles)

\* the step that saves the rows of the editor
SaveStep == isOpen /\ ~isOpen' /\ data'.tiles = Arr(ValidatedTiles(tiles))

\* the unit price is a finite number >= 0 (typed or stored)
ValidPrice(x) == IsFiniteNum(ToNumber(x)) /\ ~Less(ToNumber(x), Zero)

\* C12 (as stated): the unit price of a line is changed by no edit of another
\* field and by no save, whatever size rules the settings hold.
C12_UnitPriceNeverOverwritten ==
    [][/\ RowsKept => \A i \in 1..Len(tiles) :
              tiles'[i].unitPrice # tiles[i].unitPrice => OnlyUnitPriceChanged(i)
       /\ SaveStep => \A i \in 1..Len(tiles) :
              CurrentTiles(data')[i].unitPrice[2] = ToNumber(tiles[i].unitPrice)]_vars

\* C12 (amended): the unit price of a line is changed by no edit of another
\* field; a save keeps a unit price that is a finite number >= 0, whatever
\* size rules the settings hold, and stores 0 for a negative or non-numeric one.
C12_ValidUnitPriceKept ==
    [][/\ RowsKept => \A i \in 1..Len(tiles) :
              tiles'[i].unitPrice # tiles[i].unitPrice => OnlyUnitPriceChanged(i)
       /\ SaveStep => \A i \in 1..Len(tiles) :
              CurrentTiles(data')[i].unitPrice =
                  IF ValidPrice(tiles[i].unitPrice)
                  THEN Num(ToNumber(tiles[i].unitPrice)) ELSE N(0)]_vars

\* C12 witness: the line priced 9999 has been saved with its price after its
\* category, tile type and size were edited, the size now one with a size rule
\* of another price (60x60 -> 6500)
C12_Witness ==
    /\ ~isOpen
    /\ \E i \in 1..Len(CurrentTiles(data)) :
           LET t == CurrentTiles(data)[i]
           IN  /\ t.unitPrice = N(9999)
               /\ t.size = "60x60" /\ FirstSizeRulePrice(t.size) = Int2Num(6500)
               /\ t.category = "Kitchen Wall" /\ t.tileType = "Wall"
               /\ t.driving = "cartons"

\* the category default the generator is told to use for a line's price
\* (Category-Based Defaults of the prompt, in its order)
CategoryDefaultPrice(category) ==
    LET has(w) == w \in CategoryWords(category)
    IN  IF has("sitting") \/ has("living") \/ has("dining") \/ has("parlour")
        THEN settings.sittingRoomTilePrice
        ELSE IF has("bedroom") \/ has("room") \/ has("guest") \/ has("master")
        THEN settings.bedroomTilePrice
        ELSE IF (has("toilet") \/ has("bathroom") \/ has("restroom")) /\ has("wall")
        THEN settings.toiletWallTilePrice
        ELSE IF (has("toilet") \/ has("bathroom") \/ has("restroom")) /\ has("floor")
        THEN settings.toiletFloorTilePrice
        ELSE IF has("kitchen") /\ has("wall") THEN settings.kitchenWallTilePrice
        ELSE IF has("kitchen") /\ has("floor") THEN settings.kitchenFloorTilePrice
        ELSE IF has("external") \/ has("outside") \/ has("facade")
        THEN settings.externalWallTilePrice
        ELSE IF has("step") \/ has("stair") THEN settings.stepTilePrice
        ELSE IF has("wall") THEN settings.wallTilePrice
        ELSE settings.floorTilePrice

\* the price the priority order gives a line without a price of its own: the
\* first size rule for its size, else the default of its category bucket
ResolvedPrice(t) ==
    IF MatchingSizeRules(t.size) # {} THEN FirstSizeRulePrice(t.size)
    ELSE CategoryDefaultPrice(t.category)

\* C13: a line whose unit price is unresolved (0) gets the price of the first
\* size rule matching its size, else its category bucket's price, else the
\* general-floor price: no line of the quotation stays at 0 while the
\* resolution has a price for it.
C13_UnresolvedPriceResolved ==
    \A i \in 1..Len(CurrentTiles(data)) :
        LET t == CurrentTiles(data)[i]
        IN  NumberOrZero(t.unitPrice) = Zero => ResolvedPrice(t) = Zero

(***************************************************************************)
(* Properties of coverage-rate resolution                                  *)
(***************************************************************************)
\* the keywords c contains and c as an abbreviation
WordsOf(c) == CategoryWords(CategoryOrEmpty(c))

AbbrevOf(c) == CategoryAbbrev(CategoryOrEmpty(c))

\* the rates of the specific buckets whose keywords the category contains
SpecificBucketRates(c) ==
    LET has(w) == w \in WordsOf(c)
    IN  (IF has("kitchen") /\ has("wall") THEN {settings.kitchenWallTileM2PerCarton} ELSE {})
        \cup (IF has("kitchen") /\ has("floor") THEN {settings.kitchenFloorTileM2PerCarton} ELSE {})
        \cup (IF has("toilet") /\ has("wall") THEN {settings.toiletWallTileM2PerCarton} ELSE {})
        \cup (IF has("toilet") /\ has("floor") THEN {settings.toiletFloorTileM2PerCarton} ELSE {})
        \cup (IF has("external") THEN {settings.externalWallTileM2PerCarton} ELSE {})
        \cup (IF has("step") THEN {settings.stepTileM2PerCarton} ELSE {})

\* the row has cartons computed from its sqm by an edit
Reconciled(row) == row.driving = "sqm" /\ IsPos(NumOf(row.sqm))

\* C14: a category that contains the keywords of a specific bucket (kitchen +
\* wall, kitchen + floor, toilet + wall, toilet + floor, external, step) gets
\* that bucket's rate, never the rate of a generic or broader bucket: the
\* cartons the editor computes for it are ceil(sqm / that bucket's rate).
C14_SpecificBucketWins ==
    \A i \in 1..Len(tiles) :
        (Reconciled(tiles[i]) /\ SpecificBucketRates(tiles[i].category) # {})
        => /\ getCoverageRate(tiles[i].category) \in SpecificBucketRates(tiles[i].category)
           /\ \E r \in SpecificBucketRates(tiles[i].category) :
                  tiles[i].cartons = Num(MathCeilDiv(NumOf(tiles[i].sqm), r))

\* the keywords and abbreviations getCoverageRate tests for
CoverageKeywords ==
    { "sitting", "living", "parlour", "dining", "bedroom", "room", "guest", "store", "toilet",
      "bathroom", "wall", "floor", "kitchen", "external", "outside", "facade", "step", "stair" }

MatchesNoBucket(c) == WordsOf(c) \cap CoverageKeywords = {} /\ AbbrevOf(c) = ""

CoverageRates ==
    { settings.sittingRoomTileM2PerCarton, settings.roomTileM2PerCarton,
      settings.toiletWallTileM2PerCarton, settings.toiletFloorTileM2PerCarton,
      settings.kitchenWallTileM2PerCarton, settings.kitchenFloorTileM2PerCarton,
      settings.externalWallTileM2PerCarton, settings.stepTileM2PerCarton,
      settings.wallTileM2PerCarton, settings.floorTileM2PerCarton }

\* C15: resolution is total: every category, also an empty, blank or missing
\* one, gets one of the configured rates, and a category that matches no
\* bucket gets the general-floor rate, with which its cartons are computed.
C15_NoBucketFallsBackToFloor ==
    \A i \in 1..Len(tiles) :
        /\ getCoverageRate(tiles[i].category) \in CoverageRates
        /\ MatchesNoBucket(tiles[i].category)
           => /\ getCoverageRate(tiles[i].category) = settings.floorTileM2PerCarton
              /\ Reconciled(tiles[i])
                 => tiles[i].cartons =
                        Num(MathCeilDiv(NumOf(tiles[i].sqm), settings.floorTileM2PerCarton))

\* C15 witness: the row with the missing category had its sqm (4.5) edited and
\* got 1 carton, at the general-floor rate 6.0
C15_Witness ==
    /\ isOpen
    /\ \E i \in 1..Len(tiles) :
           /\ tiles[i].category = NoCategory
           /\ tiles[i].sqm = Str(Dec(450)) /\ tiles[i].driving = "sqm"
           /\ tiles[i].cartons = N(1)

(***************************************************************************)
(* Properties of the wastage toggle                                        *)
(***************************************************************************)
\* x is y rounded to two decimals
RoundsTo2(x, y) ==
    /\ IsInteger(Mul(x, Int2Num(100)))
    /\ Leq(AbsNum(Sub(x, y)), Norm(1, 200))

\* C16: the wastage toggle on a line with sqm > 0 multiplies sqm by
\* wastageFactor when switched on and divides it when switched off, rounded to
\* two decimals, and cartons becomes ceil(new sqm / coverageRate): the least
\* whole number of cartons that covers the new sqm.
C16_WastageToggleRecomputes ==
    [][\A i \in 1..Len(tiles) :
           (EditStep(i, "addWastage", ~tiles[i].addWastage, "sqm")
            /\ IsPos(NumOf(tiles[i].sqm)))
           => /\ tiles'[i].addWastage = ~tiles[i].addWastage
              /\ tiles'[i].sqm[1] = "number"
              /\ RoundsTo2(tiles'[i].sqm[2],
                           IF tiles[i].addWastage
                           THEN Quot(NumOf(tiles[i].sqm), settings.wastageFactor)
                           ELSE Mul(NumOf(tiles[i].sqm), settings.wastageFactor))
              /\ ToNumber(tiles'[i].cartons) =
                     ExactCeil(tiles'[i].sqm[2], getCoverageRate(tiles[i].category))]_vars

\* the row after wastage is switched off again, with no edit in between
SwitchedOff(row) == handleTileChange(row, "addWastage", FALSE)

\* C17: when wastage is switched on for a line with sqm > 0 and then off again
\* with no edit in between, sqm is back within 0.01 of its original value,
\* and when it is back exactly the cartons are ceil(original sqm / rate).
C17_WastageRoundTrip ==
    [][\A i \in 1..Len(tiles) :
           (EditStep(i, "addWastage", TRUE, "sqm") /\ ~tiles[i].addWastage
            /\ IsPos(NumOf(tiles[i].sqm)))
           => LET original == NumOf(tiles[i].sqm)
                  back == SwitchedOff(tiles'[i])
              IN  /\ Leq(AbsNum(Sub(NumOf(back.sqm), original)), Norm(1, 100))
                  /\ NumOf(back.sqm) = original
                     => ToNumber(back.cartons) =
                            ExactCeil(original, getCoverageRate(tiles[i].category))]_vars

(***************************************************************************)
(* Properties of the configuration                                         *)
(***************************************************************************)
\* C18: no reconciliation step runs with a coverage rate that is zero,
\* negative or not a number: whenever a sqm edit recomputes cartons, the rate
\* of the line's category is a finite number > 0 and the cartons it sets are
\* a finite number >= 0.
C18_NoReconciliationWithBadRate ==
    [][\A i \in 1..Len(tiles), value \in LineSqmInputs :
           (EditStep(i, "sqm", value, "sqm") /\ IsPos(parseFloat(value)))
           => /\ IsFiniteNum(getCoverageRate(tiles[i].category))
              /\ IsPos(getCoverageRate(tiles[i].category))
              /\ IsNonNegative(tiles'[i].cartons)]_vars

(***************************************************************************)
(* Properties of the adjustments                                           *)
(***************************************************************************)
RECURSIVE SignedSum(_, _)
SignedSum(adjs, i) ==
    IF i = 0 THEN Zero ELSE Add(SignedSum(adjs, i - 1), ValueOf(adjs[i].amount))

\* C20: when the adjustments are shown, totalAdjustments is the signed sum of
\* the adjustment amounts, and nothing is clamped: the post-adjustment
\* subtotal (the grand total before tax) is subtotal + that sum, also when
\* the sum or the result is negative.
C20_TotalAdjustmentsSignedSum ==
    (~summary.threw /\ FlagOn(data, "showAdjustments") /\ IsArray(data.adjustments))
    => LET sum == SignedSum(data.adjustments[2], Len(data.adjustments[2]))
       IN  /\ summary.totalAdjustments = sum
           /\ Sub(summary.grandTotal, summary.taxAmount) = Add(summary.subtotal, sum)

\* C20 witness: adjustments of -50 and +20 switched to shown on a document
\* whose subtotal is smaller than the discount: the total is -30 and the grand
\* total is negative
C20_Witness ==
    /\ ~summary.threw
    /\ data.showAdjustments = "true"
    /\ data.adjustments = Arr(<<Adjustment(N(0 - 50)), Adjustment(N(20))>>)
    /\ summary.totalAdjustments = Int2Num(0 - 30)
    /\ Less(Add(summary.subtotal, summary.totalAdjustments), Zero)
    /\ Less(summary.grandTotal, Zero)

(***************************************************************************)
(* Properties of the deposit                                               *)
(***************************************************************************)
\* C21: depositAmount is grandTotal * depositPercentage / 100 when the
\* percentage is a number other than 0, and exactly 0 when the percentage is
\* null, zero or absent from the document.
C21_DepositOnGrandTotal ==
    ~summary.threw =>
        LET pct == data.depositPercentage
        IN  /\ (WellFormed(pct) /\ ValueOf(pct) # Zero)
               => summary.depositAmount = Percent(summary.grandTotal, ValueOf(pct))
            /\ (pct = Null \/ pct = Undefined \/ (WellFormed(pct) /\ ValueOf(pct) = Zero))
               => summary.depositAmount = Zero

\* C21 witness: a deposit of 50 % on a grand total that carries adjustments and
\* tax, so that it differs from the deposit on the subtotal
C21_Witness ==
    /\ ~summary.threw
    /\ data.depositPercentage = N(50)
    /\ data.showTax = "true" /\ summary.taxAmount # Zero
    /\ summary.totalAdjustments # Zero
    /\ summary.depositAmount = Mul(summary.grandTotal, Norm(1, 2))
    /\ summary.depositAmount # Mul(summary.subtotal, Norm(1, 2))

(***************************************************************************)
(* Properties of the visibility defaults                                   *)
(***************************************************************************)
\* the document with every flag set to the value the exports take it to have
WithExportFlags(d) ==
    LET v(f) == IF ExportShows(d, settings, f) THEN "true" ELSE "false"
    IN  [d EXCEPT !.showMaterials = v("showMaterials"),
                  !.showAdjustments = v("showAdjustments"),
                  !.showWorkmanship = v("showWorkmanship"),
                  !.showMaintenance = v("showMaintenance"), !.showTax = v("showTax")]

C23_BathroomUsesToiletRates ==
    \A i \in 1..Len(tiles) :
        LET c == tiles[i].category
            has(w) == w \in WordsOf(c)
            rate == IF has("wall") THEN settings.toiletWallTileM2PerCarton
                    ELSE settings.toiletFloorTileM2PerCarton
        IN  (Reconciled(tiles[i]) /\ has("bathroom") /\ (has("wall") \/ has("floor")))
            => /\ getCoverageRate(c) = rate
               /\ tiles[i].cartons = Num(MathCeilDiv(NumOf(tiles[i].sqm), rate))

(***************************************************************************)
(* Properties of the quotation and invoice lists                           *)
(***************************************************************************)
\* the sequence number an invoice carries
SequenceOf(inv) == ParseInt(inv.invoiceNumber.digits)

\* the invoices that refer to quotation q
InvoicesOf(q) == {k \in 1..Len(allInvoices) : allInvoices[k].quotationId = q.id}

\* C24: once every started conversion and deletion has run to its end, at
\* most one invoice references each quotation, and a quotation has status
\* 'Invoiced' with invoiceId = i exactly when an invoice with id i and that
\* quotation's id as quotationId exists.
C24_OneInvoicePerQuotation ==
    pending = {} =>
        \A n \in 1..Len(allQuotations) :
            LET q == allQuotations[n]
            IN  /\ Cardinality(InvoicesOf(q)) <= 1
                /\ \A i \in Ids :
                       (q.status = "Invoiced" /\ q.invoiceId = i)
                       <=> (\E k \in InvoicesOf(q) : allInvoices[k].id = i)

\* C25: the number a conversion assigns is prefix-year-sequence with the
\* sequence padded to four digits, its sequence is greater than that of every
\* existing invoice of the same prefix and year, and no other invoice carries
\* the same number.
C25_InvoiceNumbering ==
    [][Len(allInvoices') > Len(allInvoices) =>
          LET new == allInvoices'[1]
              number == new.invoiceNumber
          IN  /\ number.prefix =
                     (IF settings.invoicePrefix = "" THEN "INV" ELSE settings.invoicePrefix)
              /\ number.year \in Years
              /\ Len(number.digits) = 4
              /\ \A k \in 1..4 : number.digits[k] \in 0..9
              /\ SequenceOf(new) >= 1
              /\ \A k \in 1..Len(allInvoices) :
                     /\ Matches(allInvoices[k].invoiceNumber, number.prefix, number.year)
                            => SequenceOf(new) > SequenceOf(allInvoices[k])
                     /\ allInvoices[k].invoiceNumber # number
              /\ \A k \in 2..Len(allInvoices') : allInvoices'[k].invoiceNumber # number]_vars

\* C25 witness: sequence 3 was assigned while the invoice numbered 2 of the
\* same prefix and year was in the list and the one numbered 1 had been
\* deleted
C25_Witness ==
    /\ Len(allInvoices) = 2
    /\ allInvoices[1].invoiceNumber.prefix = allInvoices[2].invoiceNumber.prefix
    /\ SequenceOf(allInvoices[1]) = 3
    /\ SequenceOf(allInvoices[2]) = 2
    /\ allInvoices[1].invoiceNumber.digits = <<0, 0, 0, 3>>

\* C26: under the same settings an invoice has the grandTotal of the
\* quotation it was created from.
C26_InvoiceKeepsGrandTotal ==
    \A k \in 1..Len(allInvoices), n \in 1..Len(allQuotations) :
        allInvoices[k].quotationId = allQuotations[n].id
        => calculateTotals(allInvoices[k].doc, settings).grandTotal
               = calculateTotals(allQuotations[n].doc, settings).grandTotal

\* C30: a quotation update (a status change from the history list, or the end
\* of a conversion) replaces only the entry of allQuotations with the updated
\* quotation's id, and changes the open quotation only when the open one has
\* that id.
C30_UpdateTouchesOnlyItsQuotation ==
    [][(handleStatusChange \/ ConvertToInvoiceSaved) =>
          /\ Len(allQuotations') = Len(allQuotations)
          /\ \A n \in 1..Len(allQuotations) :
                 allQuotations'[n] # allQuotations[n]
                 => allQuotations[n].id = quotationData'.id
          /\ (quotationData # NoQuotation /\ quotationData' # quotationData)
                 => quotationData.id = quotationData'.id]_vars

(***************************************************************************)
(* Properties of the undo history                                          *)
(***************************************************************************)
\* past ++ [present] ++ future
Timeline(h) == h.past \o <<h.present>> \o h.future

\* a step of one of the handlers that call set
SetStep == handleAddNote \/ handleRemoveNote \/ handleLoadExample

\* C27: undo and redo are inverse and keep past ++ [present] ++ future; after
\* a set that changes the value, undo brings back the previous present and a
\* following redo the set value; a set to a value equal to the present adds
\* no entry; a set that changes the value empties future.
C27_UndoRedoInverse ==
    [][/\ onUndo => /\ Timeline(history') = Timeline(history)
                    /\ history'.present = history.past[Len(history.past)]
                    /\ HistoryRedo(history') = history
       /\ onRedo => /\ Timeline(history') = Timeline(history)
                    /\ history'.present = history.future[1]
                    /\ HistoryUndo(history') = history
       /\ SetStep =>
              IF history'.present = history.present
              THEN history' = history
              ELSE /\ history'.past = Append(history.past, history.present)
                   /\ history'.future = <<>>
                   /\ canUndo'
                   /\ HistoryUndo(history').present = history.present
                   /\ HistoryRedo(HistoryUndo(history')).present = history'.present]_vars

\* C27 witness: the notes went [] -> [a] -> [a, b] and the last set was
\* undone: [] is in the past and [a, b] in the future
C27_Witness ==
    /\ Len(history.past) = 1
    /\ Len(history.future) = 1
    /\ history.present # history.future[1]
    /\ history.past[1] = <<>>
    /\ history.present = <<"a">>
    /\ history.future[1] = <<"a", "b">>

\* C28: the present value of the undo history is always a notes array that
\* was set or the initial one, never undefined, also when undo or redo is
\* called twice from one render.
C28_PresentNeverUndefined ==
    /\ history.present # Undefined
    /\ \A k \in 1..Len(history.past) : history.past[k] # Undefined
    /\ \A k \in 1..Len(history.future) : history.future[k] # Undefined

(***************************************************************************)
(* Properties of wastage over sessions                                     *)
(***************************************************************************)
\* the net sqm of stored line i with wastage added once
GrossOnce(i) == ToFixed2(Mul(NumOf(WastageTileList[i].sqm), settings.wastageFactor))

\* C29: the wastage division is applied only to an sqm that the wastage
\* multiplication produced on that line in the same session, and over all
\* sessions a line's net sqm is multiplied by wastageFactor at most once: no
\* line, in the editor or in the saved quotation, exceeds its net sqm with
\* wastage added once.
C29_WastageAddedOnce ==
    /\ [](\A i \in 1..Len(WastageTileList) :
              /\ Leq(NumOf(tiles[i].sqm), GrossOnce(i))
              /\ Leq(NumOf(CurrentTiles(data)[i].sqm), GrossOnce(i)))
    /\ [][\A i \in 1..Len(WastageTileList) :
              (tiles[i].addWastage /\ ~tiles'[i].addWastage /\ tiles'[i].sqm # tiles[i].sqm)
              => /\ isOpen
                 /\ tiles[i].sqm[1] = "number"]_vars

====
